---- MODULE Spec2Model ----
(***************************************************************************)
(* Leaf Group of matdb (matdb/database/basic.py): the execution/recovery   *)
(* state machine over the working directories of one set of configs, with  *)
(* the files it keeps in its root (jobfile.sh, recovery.sh, failures) and   *)
(* the batch tasks that write the configs' OUTCAR files.                    *)
(***************************************************************************)
EXTENDS Integers, Sequences, FiniteSets, TLC

\* Largest number of configs a Group holds in the model.
MaxConfigs == 2

\* st_size threshold of can_execute: a required file must exceed it.
MinSize == 25

VARIABLES
    configs,          \* Group.configs: the config ids (id c maps to Path(c))
    inputs,           \* per config: the state of the required input files of its folder
    outcar,           \* per config: the state of the OUTCAR file of its folder
    jobfile_sh,       \* root/jobfile.sh
    recovery_sh,      \* root/recovery.sh
    failures,         \* root/failures
    recoveryTemplate, \* whether settings["template"] names a loadable recovery template
    tasks,            \* array tasks queued in the batch scheduler
    pc,               \* position of the driver: "idle", or "recover" inside recover()
    detail,           \* recover()'s local `detail` (status snapshot) and its rerun argument
    prev,             \* what the driver's last completed call did, while nothing else happened since
    aborted,          \* some recover() raised after it had written the failures file
    nconfigs,         \* Group.nconfigs: the expected number of configs, or None
    xyz,              \* per config: whether its folder holds an output.xyz
    archive,          \* root/output.xyz: the combined record
    nsuccess,         \* Group._nsuccess
    sbatch,           \* the number of times the driver's last call ran the sbatch command
    phondft,          \* stage 1 (PhononDFT, prefix "W"): its configs, their OUTCARs, its jobfile
    phoncalib,        \* stage 2 (PhononCalibration, prefix "C"): the same
    phonons,          \* stage 3 (PhononDatabase, prefix "M"): the same
    mesh_yaml,        \* whether phonopy/mesh.yaml exists in the root of stage 1
    calibration_dat,  \* whether calibration.dat exists in the root of stage 2
    phonopy,          \* how many POSCAR-* and MPOSCAR-* files the phonopy program writes
    calibrate,        \* whether stage 3 is configured without an explicit amplitude
    phonons_xyz,      \* whether output.xyz exists in the root of stage 3
    phonons_nsuccess, \* _nsuccess of the PhononDatabase instance at hand
    sequence,         \* Group.sequence of a composite Group: its child Groups, in order
    dirs,             \* the directories of a root whose names match prefix.*, as their dot-separated parts
    paths             \* Group.configs as the mapping it is: config id to folder name

vars == <<configs, inputs, outcar, jobfile_sh, recovery_sh, failures,
          recoveryTemplate, tasks, pc, detail, prev, aborted,
          nconfigs, xyz, archive, nsuccess, sbatch,
          phondft, phoncalib, phonons, mesh_yaml, calibration_dat, phonopy,
          calibrate, phonons_xyz, phonons_nsuccess, sequence, dirs, paths>>

\* The leaf Group on its own.
group == <<configs, inputs, outcar, jobfile_sh, recovery_sh, failures,
           recoveryTemplate, tasks, pc, detail, prev, aborted,
           nconfigs, xyz, archive, nsuccess, sbatch>>

\* The three stages of the phonon pipeline and the files that gate them.
pipeline == <<phondft, phoncalib, phonons, mesh_yaml, calibration_dat, phonopy,
              calibrate, phonons_xyz, phonons_nsuccess>>

\* The folders of a root and the mapping a Group loads from them.
disk == <<dirs, paths>>

\* The attributes and files of the extraction and of the expected size.
extraction == <<nconfigs, xyz, archive, nsuccess, sbatch>>

-----------------------------------------------------------------------------
(* Paths and files *)

\* path.join(root, "{}.{}".format(prefix, cid)) for cid = 1, 2, ...
PathNames == <<"root/S.1", "root/S.2", "root/S.3", "root/S.4">>

\* str(cid) for cid = 1, 2, ...
IdNames == <<"1", "2", "3", "4">>

Path(c) == PathNames[c]

CidOf(p) == CHOOSE c \in 1..Len(PathNames) : PathNames[c] = p

\* The input files can_execute requires, in the order it probes them.
Required == <<"INCAR", "POSCAR", "KPOINTS", "POTCAR">>

RequiredSet == {Required[i] : i \in 1..Len(Required)}

NoInput == [isfile |-> FALSE, size |-> 0]

GoodInputs == [r \in RequiredSet |-> [isfile |-> TRUE, size |-> 100]]

\* A truncated INCAR left by a crashed write.
SmallInputs == [GoodInputs EXCEPT !["INCAR"] = [isfile |-> TRUE, size |-> 10]]

\* A folder that lacks its POSCAR.
MissingInputs == [GoodInputs EXCEPT !["POSCAR"] = NoInput]

\* The states of a folder's input files, by name.
InputShapes == {"good", "small", "missing"}

InputFiles(shape) ==
    IF shape = "good" THEN GoodInputs
    ELSE IF shape = "small" THEN SmallInputs
    ELSE MissingInputs

\* OUTCAR contents, as the tokens can_cleanup looks for.
NoOutcar == [isfile |-> FALSE, data |-> <<>>]

EmptyOutcar == [isfile |-> TRUE, data |-> <<>>]

PartialOutcar == [isfile |-> TRUE, data |-> <<"header", "NL">>]

SuccessOutcar ==
    [isfile |-> TRUE, data |-> <<"header", "NL", "free  energy", "TOTEN", "NL">>]

ErrorOutcar ==
    [isfile |-> TRUE, data |-> <<"header", "NL", "free  energy", "Error", "NL">>]

\* The states of a folder's OUTCAR, by name.
OutcarFile(state) ==
    IF state = "none" THEN NoOutcar
    ELSE IF state = "empty" THEN EmptyOutcar
    ELSE IF state = "partial" THEN PartialOutcar
    ELSE IF state = "success" THEN SuccessOutcar
    ELSE ErrorOutcar

NoScript == [isfile |-> FALSE, array_size |-> 0, execution_path |-> ""]

NoFailures == [isfile |-> FALSE, lines |-> <<>>]

-----------------------------------------------------------------------------
(* FileProbe: can_execute, can_cleanup *)

\* stat(target) raises OSError for a file that does not exist.
StatRaises(folder) == \E i \in 1..Len(Required) : ~folder.files[Required[i]].isfile

can_execute(folder) ==
    IF ~folder.isdir THEN "false"
    ELSE IF StatRaises(folder) THEN "raise"
    ELSE IF \A i \in 1..Len(Required) :
                /\ folder.files[Required[i]].isfile
                /\ folder.files[Required[i]].size > MinSize
         THEN "true"
         ELSE "false"

\* m.rfind('free  energy'): the 0-based offset of the last marker, -1 if none.
RFind(data) ==
    LET hits == {i \in 1..Len(data) : data[i] = "free  energy"}
    IN  IF hits = {} THEN -1
        ELSE (CHOOSE i \in hits : \A j \in hits : j <= i) - 1

\* m.seek(i); m.readline(): the rest of the line that starts at offset i.
ReadLine(data, i) ==
    LET ends == {j \in (i + 1)..Len(data) : data[j] = "NL"}
        last == IF ends = {} THEN Len(data)
                ELSE CHOOSE j \in ends : \A k \in ends : j <= k
    IN  SubSeq(data, i + 1, last)

\* The line after the last 'free  energy', or <<>> for None (i > 0 fails).
MarkerLine(data) ==
    IF RFind(data) > 0 THEN ReadLine(data, RFind(data)) ELSE <<>>

Contains(line, tok) == \E i \in 1..Len(line) : line[i] = tok

\* Mutant: the second scan, for the error line, left out.
can_cleanup_noerror(folder) ==
    IF ~folder.isdir THEN "false"
    ELSE IF ~folder.OUTCAR.isfile THEN "false"
    ELSE IF Len(folder.OUTCAR.data) = 0 THEN "raise"
    ELSE IF Contains(MarkerLine(folder.OUTCAR.data), "TOTEN") THEN "true"
    ELSE "false"

can_cleanup(folder) ==
    IF ~folder.isdir THEN "false"
    ELSE IF ~folder.OUTCAR.isfile THEN "false"
    ELSE IF Len(folder.OUTCAR.data) = 0 THEN "raise"
    ELSE IF Contains(MarkerLine(folder.OUTCAR.data), "TOTEN") THEN "true"
    ELSE IF Contains(MarkerLine(folder.OUTCAR.data), "Error") THEN "true"
    ELSE "false"

\* The probes on the folder of config c. A probe reads the folder's files
\* only, so its results are tabulated by the state of the files.
OutcarStates == {"none", "empty", "partial", "success", "error"}

can_execute_of ==
    [shape \in InputShapes |->
        can_execute([isdir |-> TRUE, files |-> InputFiles(shape), OUTCAR |-> NoOutcar])]

can_cleanup_of ==
    [state \in OutcarStates |->
        can_cleanup([isdir |-> TRUE, files |-> GoodInputs, OUTCAR |-> OutcarFile(state)])]

CanExecute(c) == can_execute_of[inputs[c]]

CanCleanup(c) == can_cleanup_of[outcar[c]]

HasOutcar(c) == OutcarFile(outcar[c]).isfile

-----------------------------------------------------------------------------
(* Group.is_executing, Group.status *)

is_executing ==
    /\ \E c \in configs : HasOutcar(c)
    /\ \E c \in configs : CanCleanup(c) # "true"

\* status() calls the probes for every config; any raise propagates.
StatusRaises ==
    \E c \in configs :
        \/ CanExecute(c) = "raise"
        \/ CanCleanup(c) = "raise"

ConfigPaths == {Path(c) : c \in configs}

\* status(False): the dict returned, keyed by folder path.
status ==
    [ready |-> [p \in ConfigPaths |-> CanExecute(CidOf(p)) = "true"],
     done  |-> [p \in ConfigPaths |-> CanCleanup(CidOf(p)) = "true"],
     N     |-> Cardinality(configs),
     busy  |-> is_executing]

NoDetail == [ready |-> <<>>, done |-> <<>>, N |-> 0, busy |-> FALSE]

-----------------------------------------------------------------------------
\* prev: "submitted" after a non-recovery execute() that sbatch acknowledged;
\* "recovering" inside a recover(); "recovered" after a completed recover(rerun)
\* during which no job wrote, kept while only execute(recovery=True) calls
\* follow (between), with `again` when that recover(rerun) directly followed
\* a "recovered" of the same rerun. Every step of a job resets it.
NoPrev == [op |-> "none", rerun |-> FALSE, again |-> FALSE, between |-> FALSE]

Submitted == [NoPrev EXCEPT !.op = "submitted"]

Recovered(rerun) ==
    LET same == prev.op = "recovered" /\ prev.rerun = rerun
    IN  IF prev.op \in {"recovering", "recovered"}
        THEN [op |-> "recovered", rerun |-> rerun, again |-> same,
              between |-> same /\ prev.between]
        ELSE NoPrev

\* The Group after construction over an empty root: no config, no file.
InitGroup ==
    /\ configs = {}
    /\ inputs = <<>>
    /\ outcar = <<>>
    /\ jobfile_sh = NoScript
    /\ recovery_sh = NoScript
    /\ failures = NoFailures
    /\ recoveryTemplate \in BOOLEAN
    /\ tasks = {}
    /\ pc = "idle"
    /\ detail = [rerun |-> FALSE, status |-> NoDetail]
    /\ prev = NoPrev
    /\ aborted = FALSE

\* nconfigs=None of Group.__init__.
None == -1

NoArchive == [isfile |-> FALSE, entries |-> <<>>]

\* The rest of the Group after construction over an empty root.
InitExtraction ==
    /\ nconfigs = None
    /\ xyz = <<>>
    /\ archive = NoArchive
    /\ nsuccess = 0
    /\ sbatch = 0

\* A stage of the pipeline after construction over an empty root.
NoStage == [configs |-> {}, outcar |-> <<>>, jobfile |-> FALSE]

\* No pipeline: three empty stages, no derived file.
InitPipeline ==
    /\ phondft = NoStage
    /\ phoncalib = NoStage
    /\ phonons = NoStage
    /\ mesh_yaml = FALSE
    /\ calibration_dat = FALSE
    /\ phonopy = [displaced |-> 0, modulated |-> 0]
    /\ calibrate = FALSE
    /\ phonons_xyz = FALSE
    /\ phonons_nsuccess = 0

\* An empty root and the Group constructed over it.
InitDisk == dirs = {} /\ paths = <<>>

Init == InitGroup /\ InitExtraction /\ InitPipeline /\ sequence = <<>> /\ InitDisk

\* Group.create(atoms): the next id, its folder and the input files written there.
Create(shape) ==
    /\ pc = "idle"
    /\ Cardinality(configs) < MaxConfigs
    /\ LET cid == Cardinality(configs) + 1
       IN  /\ configs' = configs \cup {cid}
           /\ inputs' = [c \in configs \cup {cid} |->
                            IF c = cid THEN shape ELSE inputs[c]]
           /\ outcar' = [c \in configs \cup {cid} |->
                            IF c \in configs THEN outcar[c] ELSE "none"]
    /\ prev' = NoPrev
    /\ UNCHANGED <<jobfile_sh, recovery_sh, failures, recoveryTemplate, tasks,
                   pc, detail, aborted>>

-----------------------------------------------------------------------------
(* Group.jobfile *)

\* matdb.utility.linecount: the number of lines of the file ('\n'.join writes
\* one line per entry), 0 for a file that does not exist.
linecount(file) == IF file.isfile THEN Len(file.lines) ELSE 0

\* The array size jobfile() computes before it looks at the target.
asize(recovery, fl) == IF recovery THEN linecount(fl) ELSE Cardinality(configs)

xpath(recovery) == IF recovery THEN "root/failures" ELSE "root/S."

\* Mutant: no early return, the script is rendered on every call.
render_skipped_never(target, rerun) == FALSE

\* Mutant: the early return without the isfile test.
render_skipped_norerun(target, rerun) == ~rerun

\* `if path.isfile(target) and not rerun: return`
render_skipped(target, rerun) == target.isfile /\ ~rerun

\* env.get_template(settings["template"].replace("array", "recovery")) raises
\* when the package has no such template.
template_raises(recovery) == recovery /\ ~recoveryTemplate

\* jobfile(rerun, recovery) with `fl` as the failures file: whether it raised
\* and the target script it leaves.
jobfile(rerun, recovery, fl) ==
    LET target == IF recovery THEN recovery_sh ELSE jobfile_sh
    IN  IF render_skipped(target, rerun)
        THEN [raised |-> FALSE, script |-> target]
        ELSE IF template_raises(recovery)
        THEN [raised |-> TRUE, script |-> target]
        ELSE [raised |-> FALSE,
              script |-> [isfile |-> TRUE,
                          array_size |-> asize(recovery, fl),
                          execution_path |-> xpath(recovery)]]

\* jobfile(rerun) as the stage setup() of a sub-class calls it.
Jobfile(rerun) ==
    /\ pc = "idle"
    /\ jobfile_sh' = jobfile(rerun, FALSE, failures).script
    /\ prev' = NoPrev
    /\ UNCHANGED <<configs, inputs, outcar, recovery_sh, failures,
                   recoveryTemplate, tasks, pc, detail, aborted>>

-----------------------------------------------------------------------------
(* Group.execute *)

\* The checks of execute() before it compiles the command: "go", or the
\* result it returns early ("false"), or "raise" when a probe raises.
execute_checks(recovery) ==
    LET target == IF recovery THEN recovery_sh ELSE jobfile_sh
    IN  IF ~target.isfile THEN "false"
        ELSE IF ~recovery
        THEN IF \E c \in configs : CanExecute(c) = "raise" THEN "raise"
             ELSE IF \E c \in configs : CanExecute(c) # "true" THEN "false"
             ELSE IF \E c \in configs : HasOutcar(c) THEN "false"
             ELSE "go"
        ELSE "go"

\* execute(dryrun, recovery): its result and whether it invoked sbatch; `ack`
\* is whether sbatch answers "Submitted".
execute(dryrun, recovery, ack) ==
    LET chk == execute_checks(recovery)
    IN  IF chk # "go" THEN [result |-> chk, invoked |-> FALSE]
        ELSE IF dryrun THEN [result |-> "true", invoked |-> FALSE]
        ELSE [result |-> IF ack THEN "true" ELSE "false", invoked |-> TRUE]

\* What sbatch can answer: "Submitted" or not; no answer when it is not invoked.
sbatch_answers(dryrun, recovery) ==
    IF execute(dryrun, recovery, TRUE).invoked THEN BOOLEAN ELSE {FALSE}

\* The array tasks an acknowledged `sbatch <jobfile>` queues.
submitted(recovery) ==
    LET target == IF recovery THEN recovery_sh ELSE jobfile_sh
    IN  {<<IF recovery THEN "recovery" ELSE "array", n>> : n \in 1..target.array_size}

\* Mutant: the command run once for every config.
sbatch_calls_each(dryrun, recovery) ==
    IF execute(dryrun, recovery, TRUE).invoked THEN Cardinality(configs) ELSE 0

\* The number of times one execute(dryrun, recovery) runs `sbatch <jobfile>`.
sbatch_calls(dryrun, recovery) ==
    IF execute(dryrun, recovery, TRUE).invoked THEN 1 ELSE 0

Execute(dryrun, recovery, ack) ==
    /\ pc = "idle"
    /\ LET x == execute(dryrun, recovery, ack)
       IN  /\ tasks' = IF x.invoked /\ x.result = "true"
                       THEN tasks \cup submitted(recovery)
                       ELSE tasks
           /\ prev' = IF recovery
                      THEN IF prev.op = "recovered"
                           THEN [prev EXCEPT !.between = TRUE]
                           ELSE NoPrev
                      ELSE IF x.invoked /\ x.result = "true" THEN Submitted
                      ELSE NoPrev
    /\ UNCHANGED <<configs, inputs, outcar, jobfile_sh, recovery_sh, failures,
                   recoveryTemplate, pc, detail, aborted>>

-----------------------------------------------------------------------------
(* Group.recover *)

\* Mutant: the comprehension without its `if not v`.
failed_of_all(done) == SelectSeq(PathNames, LAMBDA p : p \in DOMAIN done)

\* [k for k, v in detail["done"].items() if not v]; the dict is walked in the
\* order of the config ids.
failed_of(done) ==
    SelectSeq(PathNames, LAMBDA p : p \in DOMAIN done /\ ~done[p])

\* Mutant: the file opened for appending.
write_failures_append(old, failed) ==
    [isfile |-> TRUE, lines |-> old.lines \o failed]

\* open(xpath, 'w'); f.write('\n'.join(failed))
write_failures(old, failed) == [isfile |-> TRUE, lines |-> failed]

\* Mutant: the file is left where it is.
remove_nothing(file, gone) == file

\* `if path.isfile(f): remove(f)`: the file afterwards (`gone` is no file).
remove(file, gone) == IF file.isfile THEN gone ELSE file

\* recover(rerun), first part: detail = self.status(False).
RecoverStatus(rerun) ==
    /\ pc = "idle"
    /\ IF StatusRaises
       THEN /\ prev' = NoPrev
            /\ UNCHANGED <<pc, detail>>
       ELSE /\ pc' = "recover"
            /\ detail' = [rerun |-> rerun, status |-> status]
            /\ prev' = IF prev.op = "recovered" THEN prev
                       ELSE [NoPrev EXCEPT !.op = "recovering"]
    /\ UNCHANGED <<configs, inputs, outcar, jobfile_sh, recovery_sh, failures,
                   recoveryTemplate, tasks, aborted>>

\* recover(rerun), second part: the failures file and the recovery jobfile.
RecoverFinish ==
    /\ pc = "recover"
    /\ LET failed == failed_of(detail.status.done)
           fl     == write_failures(failures, failed)
           job    == jobfile(detail.rerun, TRUE, fl)
       IN  IF Len(failed) > 0
           THEN /\ failures' = fl
                /\ recovery_sh' = job.script
                /\ aborted' = (aborted \/ job.raised)
                /\ prev' = IF job.raised THEN NoPrev ELSE Recovered(detail.rerun)
           ELSE /\ recovery_sh' = remove(recovery_sh, NoScript)
                /\ failures' = remove(failures, NoFailures)
                /\ aborted' = aborted
                /\ prev' = Recovered(detail.rerun)
    /\ pc' = "idle"
    /\ detail' = [rerun |-> FALSE, status |-> NoDetail]
    /\ UNCHANGED <<configs, inputs, outcar, jobfile_sh, recoveryTemplate, tasks>>

-----------------------------------------------------------------------------
(* The batch scheduler and the jobs it runs: the only writers of OUTCAR *)

\* The config whose folder array task t runs in, 0 when there is none: task n
\* of jobfile.sh runs in root/S.n, task n of recovery.sh in the folder named
\* on line n of the failures file.
task_folder(t) ==
    IF t[1] = "array"
    THEN IF t[2] \in configs THEN t[2] ELSE 0
    ELSE IF failures.isfile /\ t[2] <= Len(failures.lines)
         THEN CidOf(failures.lines[t[2]])
         ELSE 0

\* A queued task starts: the calculator replaces the folder's OUTCAR by a fresh
\* one and writes its header.
TaskStart(t) ==
    /\ t \in tasks
    /\ tasks' = tasks \ {t}
    /\ outcar' = IF task_folder(t) = 0 THEN outcar
                 ELSE [outcar EXCEPT ![task_folder(t)] = "partial"]
    /\ prev' = NoPrev
    /\ UNCHANGED <<configs, inputs, jobfile_sh, recovery_sh, failures,
                   recoveryTemplate, pc, detail, aborted>>

\* A running job terminates and leaves `final` as its OUTCAR: with the energy
\* line ("success") or with the error line ("error").
JobFinish(c, final) ==
    /\ c \in configs
    /\ outcar[c] = "partial"
    /\ outcar' = [outcar EXCEPT ![c] = final]
    /\ prev' = NoPrev
    /\ UNCHANGED <<configs, inputs, jobfile_sh, recovery_sh, failures,
                   recoveryTemplate, tasks, pc, detail, aborted>>

-----------------------------------------------------------------------------
(* Group.setup, Group.status and Group.is_executing as calls *)

\* The values of nconfigs a Group is constructed with.
NConfigsChoices == {None} \cup (0..MaxConfigs)

\* `len(self.configs) == self.nconfigs or
\*  len(self.configs) > 0 and self.nconfigs is None`
confok ==
    \/ Cardinality(configs) = nconfigs
    \/ (Cardinality(configs) > 0 /\ nconfigs = None)

\* is_executing() as a call: "true", "false", or "raise" when a can_cleanup it
\* calls raises. Its second loop stops at the first config that is not done.
is_executing_outcome ==
    LET notdone == {c \in configs : CanCleanup(c) # "true"}
        first   == CHOOSE c \in notdone : \A d \in notdone : c <= d
    IN  IF notdone # {} /\ CanCleanup(first) = "raise" THEN "raise"
        ELSE IF is_executing THEN "true"
        ELSE "false"

\* The base setup() of a leaf Group: `result = confok or xok`.
setup ==
    IF is_executing_outcome = "raise" THEN "raise"
    ELSE IF confok \/ is_executing_outcome = "true" THEN "true"
    ELSE "false"

\* status() as a call: the dict it returns, or "raise".
status_outcome ==
    IF StatusRaises THEN [raised |-> TRUE, detail |-> NoDetail]
    ELSE [raised |-> FALSE, detail |-> status]

\* setup(): probes only.
Setup ==
    /\ pc = "idle"
    /\ sbatch' = 0
    /\ UNCHANGED <<configs, inputs, outcar, jobfile_sh, recovery_sh, failures,
                   recoveryTemplate, tasks, pc, detail, prev, aborted,
                   nconfigs, xyz, archive, nsuccess>>

\* status(): probes only.
Status ==
    /\ pc = "idle"
    /\ sbatch' = 0
    /\ UNCHANGED <<configs, inputs, outcar, jobfile_sh, recovery_sh, failures,
                   recoveryTemplate, tasks, pc, detail, prev, aborted,
                   nconfigs, xyz, archive, nsuccess>>

-----------------------------------------------------------------------------
(* Group.xyz *)

\* The OUTCAR of config c reports a final energy that can be converted.
usable_of ==
    [state \in OutcarStates |-> Contains(MarkerLine(OutcarFile(state).data), "TOTEN")]

Usable(c) == usable_of[outcar[c]]

\* matdb.io.vasp_to_xyz(folder, filename, recalc, ...) with `files` as the
\* output.xyz files present: an output.xyz that is there is kept unless
\* recalc; otherwise the OUTCAR is converted; a run without usable result
\* yields no file and False.
vasp_to_xyz(c, recalc, files) ==
    IF files[c] /\ ~recalc THEN TRUE ELSE Usable(c)

\* The output.xyz files after the vasp_to_xyz calls of one xyz().
xyz_files(recalc, files) ==
    [c \in configs |-> files[c] \/ vasp_to_xyz(c, recalc, files)]

\* Mutant: the path appended whether or not it had been appended.
xyz_collect_twice(created, ok, outpath) ==
    IF ok THEN Append(Append(created, outpath), outpath) ELSE created

\* `if vasp_to_xyz(...): created.append(outpath)`
xyz_collect(created, ok, outpath) ==
    IF ok THEN Append(created, outpath) ELSE created

\* `created` after the loop over the configs 1..n.
RECURSIVE xyz_created(_, _, _)
xyz_created(n, recalc, files) ==
    IF n = 0 THEN <<>>
    ELSE IF n \in configs
    THEN xyz_collect(xyz_created(n - 1, recalc, files),
                     vasp_to_xyz(n, recalc, files), Path(n))
    ELSE xyz_created(n - 1, recalc, files)

created(recalc, files) == xyz_created(Len(PathNames), recalc, files)

\* matdb.utility.cat(created, dboutpath): the target rewritten with the
\* contents of the files, one entry each.
cat(files, target) == [isfile |-> TRUE, entries |-> files]

\* The combined record after xyz(recalc, combine).
xyz_archive(recalc, combine, files, old) ==
    IF combine THEN cat(created(recalc, files), old) ELSE old

\* Mutant: the count compared with the expected number of configs.
xyz_result_expected(recalc, files) == Len(created(recalc, files)) = nconfigs

\* `return len(created) == len(self.configs)`
xyz_result(recalc, files) == Len(created(recalc, files)) = Cardinality(configs)

Xyz(recalc, combine) ==
    /\ pc = "idle"
    /\ xyz' = xyz_files(recalc, xyz)
    /\ nsuccess' = Len(created(recalc, xyz))
    /\ archive' = xyz_archive(recalc, combine, xyz, archive)
    /\ sbatch' = 0
    /\ UNCHANGED <<configs, inputs, outcar, jobfile_sh, recovery_sh, failures,
                   recoveryTemplate, tasks, pc, detail, prev, aborted, nconfigs>>

\* create() leaves a new folder without output.xyz.
CreateFolder(shape) ==
    /\ Create(shape)
    /\ xyz' = [c \in configs' |-> IF c \in configs THEN xyz[c] ELSE FALSE]
    /\ sbatch' = 0
    /\ UNCHANGED <<nconfigs, archive, nsuccess>>

-----------------------------------------------------------------------------
(* The calculator at work in a folder, step by step *)

\* The calculator opens the OUTCAR of a folder that has none: an empty file.
JobOpen(c) ==
    /\ c \in configs
    /\ outcar[c] = "none"
    /\ outcar' = [outcar EXCEPT ![c] = "empty"]
    /\ prev' = NoPrev
    /\ UNCHANGED <<configs, inputs, jobfile_sh, recovery_sh, failures,
                   recoveryTemplate, tasks, pc, detail, aborted>>

\* The calculator writes the header into the OUTCAR it has opened.
JobHeader(c) ==
    /\ c \in configs
    /\ outcar[c] = "empty"
    /\ outcar' = [outcar EXCEPT ![c] = "partial"]
    /\ prev' = NoPrev
    /\ UNCHANGED <<configs, inputs, jobfile_sh, recovery_sh, failures,
                   recoveryTemplate, tasks, pc, detail, aborted>>

-----------------------------------------------------------------------------
(* The phonon pipeline (matdb/database/phonon.py): PhononDFT,              *)
(* PhononCalibration and PhononDatabase over the base class of basic.py    *)

\* nconfigs of PhononCalibration and of PhononDatabase: the expected size of
\* stages 2 and 3.
StageConfigs == MaxConfigs

\* The OUTCAR states of a folder of a stage while its job runs.
StageOutcars == {"none", "empty", "partial", "success"}

\* setup() of the base class on a stage: `confok`.
stage_confok(s, n) ==
    \/ Cardinality(s.configs) = n
    \/ (Cardinality(s.configs) > 0 /\ n = None)

\* is_executing() of the base class on a stage: "true", "false" or "raise".
stage_is_executing(s) ==
    LET notdone == {c \in s.configs : can_cleanup_of[s.outcar[c]] # "true"}
        first   == CHOOSE c \in notdone : \A d \in notdone : c <= d
        outcars == \E c \in s.configs : OutcarFile(s.outcar[c]).isfile
    IN  IF notdone # {} /\ can_cleanup_of[s.outcar[first]] = "raise" THEN "raise"
        ELSE IF outcars /\ notdone # {} THEN "true"
        ELSE "false"

\* setup() of the base class on a stage: `confok or xok`, or "raise".
stage_setup(s, n) ==
    IF stage_is_executing(s) = "raise" THEN "raise"
    ELSE IF stage_confok(s, n) \/ stage_is_executing(s) = "true" THEN "true"
    ELSE "false"

\* cleanup() of the base class on a stage: "true", "false" or "raise".
stage_cleanup(s, n) ==
    IF Cardinality(s.configs) # n /\ n # None THEN "false"
    ELSE IF \E c \in s.configs : can_cleanup_of[s.outcar[c]] = "raise" THEN "raise"
    ELSE IF \A c \in s.configs : can_cleanup_of[s.outcar[c]] = "true" THEN "true"
    ELSE "false"

\* Mutant: create() that takes the next free id whatever cid it is given.
create_next(s, cid) ==
    LET id == Cardinality(s.configs) + 1
    IN  [s EXCEPT !.configs = s.configs \cup {id},
                  !.outcar = [c \in s.configs \cup {id} |->
                                 IF c \in s.configs THEN s.outcar[c] ELSE "none"]]

\* create(atoms, cid) on a stage: the folder of `cid`, or of the next id when
\* cid is None; mkdir only when the folder is not there; configs[cid] = target.
create(s, cid) ==
    LET id == IF cid = None THEN Cardinality(s.configs) + 1 ELSE cid
    IN  [s EXCEPT !.configs = s.configs \cup {id},
                  !.outcar = [c \in s.configs \cup {id} |->
                                 IF c \in s.configs THEN s.outcar[c] ELSE "none"]]

\* The loop over the files phonopy left: one create() per file, in order.
RECURSIVE create_each(_, _)
create_each(s, cids) ==
    IF cids = <<>> THEN s
    ELSE create_each(create(s, Head(cids)), Tail(cids))

\* jobfile(rerun) on a stage: the script is left alone when it exists and rerun
\* is false, written otherwise.
stage_jobfile(s, rerun) ==
    IF s.jobfile /\ ~rerun THEN s ELSE [s EXCEPT !.jobfile = TRUE]

\* glob("POSCAR-*") after `phonopy -d`: create(datoms) takes no cid.
displacements == [i \in 1..phonopy.displaced |-> None]

\* sorted(glob("MPOSCAR-*")) without MPOSCAR-orig: cid = int(name.split('-')[1]).
modulations == [i \in 1..phonopy.modulated |-> i]

\* PhononDFT.ready(): phonopy/mesh.yaml is a file.
phondft_ready == mesh_yaml

\* PhononCalibration.ready(): calibration.dat is a file.
phoncalib_ready == calibration_dat

\* PhononDFT.setup(rerun): whether it raised, and the stage it leaves.
phondft_setup(s, rerun) ==
    LET folders_ok == stage_setup(s, None)
    IN  IF folders_ok = "raise" THEN [raised |-> TRUE, stage |-> s]
        ELSE IF folders_ok = "true" /\ ~rerun THEN [raised |-> FALSE, stage |-> s]
        ELSE IF phondft_ready THEN [raised |-> FALSE, stage |-> s]
        ELSE [raised |-> FALSE,
              stage |-> stage_jobfile(IF folders_ok = "false"
                                      THEN create_each(s, displacements)
                                      ELSE s, rerun)]

\* Mutant: stage 2 without the test of the base.
phoncalib_setup_ungated(s) ==
    LET done == stage_setup(s, StageConfigs)
    IN  IF done = "raise" THEN [raised |-> TRUE, stage |-> s]
        ELSE IF done = "true" THEN [raised |-> FALSE, stage |-> s]
        ELSE IF phoncalib_ready THEN [raised |-> FALSE, stage |-> s]
        ELSE [raised |-> FALSE,
              stage |-> stage_jobfile(create_each(s, modulations), FALSE)]

\* PhononCalibration.setup(): whether it raised, and the stage it leaves. It
\* has no return value on any path.
phoncalib_setup(s) ==
    LET done == stage_setup(s, StageConfigs)
    IN  IF done = "raise" THEN [raised |-> TRUE, stage |-> s]
        ELSE IF done = "true" THEN [raised |-> FALSE, stage |-> s]
        ELSE IF ~phondft_ready THEN [raised |-> FALSE, stage |-> s]
        ELSE IF phoncalib_ready THEN [raised |-> FALSE, stage |-> s]
        ELSE [raised |-> FALSE,
              stage |-> stage_jobfile(create_each(s, modulations), FALSE)]

\* An explicit amplitude of the configuration file.
Amplitude == 1

\* PhononCalibration.infer_amplitude(): None while the calibration is not
\* ready, NotImplementedError once it is.
infer_amplitude == [raised |-> phoncalib_ready, value |-> None]

\* PhononDatabase.__init__: self.amplitude, or the raise of infer_amplitude().
amplitude ==
    IF calibrate THEN infer_amplitude ELSE [raised |-> FALSE, value |-> Amplitude]

\* Mutant: stage 3 without the test of the amplitude.
phonons_setup_uncalibrated(s) ==
    IF amplitude.raised THEN [raised |-> TRUE, stage |-> s]
    ELSE LET done == stage_setup(s, StageConfigs)
         IN  IF done = "raise" THEN [raised |-> TRUE, stage |-> s]
             ELSE IF done = "true" THEN [raised |-> FALSE, stage |-> s]
             ELSE IF ~phondft_ready THEN [raised |-> FALSE, stage |-> s]
             ELSE [raised |-> FALSE,
                   stage |-> stage_jobfile(create_each(s, modulations), FALSE)]

\* PhononDatabase(...).setup(): the constructor, then setup(); whether either
\* raised, and the stage they leave.
phonons_setup(s) ==
    IF amplitude.raised THEN [raised |-> TRUE, stage |-> s]
    ELSE LET done == stage_setup(s, StageConfigs)
         IN  IF done = "raise" THEN [raised |-> TRUE, stage |-> s]
             ELSE IF done = "true" THEN [raised |-> FALSE, stage |-> s]
             ELSE IF ~phondft_ready THEN [raised |-> FALSE, stage |-> s]
             ELSE IF amplitude.value = None THEN [raised |-> FALSE, stage |-> s]
             ELSE [raised |-> FALSE,
                   stage |-> stage_jobfile(create_each(s, modulations), FALSE)]

\* PhononDFT.cleanup(recalc) up to the two phonopy runs: whether they are
\* reached ("true"), or the call returns before ("false"), or raises.
phondft_cleanup == stage_cleanup(phondft, None)

\* What the call xyz(config_type="phcalib") and the reading of the forces
\* come to in PhononCalibration.cleanup(): None when the call raises (the
\* xyz() of basic.py takes no such keyword), else the number of configs whose
\* forces are read, 0 when the extraction fails.
ForcesRead == {None} \cup (0..StageConfigs)

\* PhononCalibration.cleanup(): whether it raised, what it returns, and
\* whether it has written calibration.dat.
phoncalib_cleanup(forces) ==
    LET ok == stage_cleanup(phoncalib, StageConfigs)
    IN  IF ok = "raise" \/ (ok = "true" /\ forces = None)
        THEN [raised |-> TRUE, result |-> FALSE, written |-> FALSE]
        ELSE IF ok = "false"
        THEN [raised |-> FALSE, result |-> FALSE, written |-> FALSE]
        ELSE [raised |-> FALSE, result |-> forces > 3, written |-> forces > 0]

PhondftSetup(rerun) ==
    /\ phondft' = phondft_setup(phondft, rerun).stage
    /\ UNCHANGED <<phoncalib, phonons, mesh_yaml, calibration_dat, phonopy, calibrate,
                   phonons_xyz, phonons_nsuccess>>

PhoncalibSetup ==
    /\ phoncalib' = phoncalib_setup(phoncalib).stage
    /\ UNCHANGED <<phondft, phonons, mesh_yaml, calibration_dat, phonopy, calibrate,
                   phonons_xyz, phonons_nsuccess>>

\* A PhononDatabase is constructed (self._nsuccess = 0) and its setup() called.
PhononsSetup ==
    /\ phonons' = phonons_setup(phonons).stage
    /\ phonons_nsuccess' = IF amplitude.raised THEN phonons_nsuccess ELSE 0
    /\ UNCHANGED <<phondft, phoncalib, mesh_yaml, calibration_dat, phonopy, calibrate,
                   phonons_xyz>>

\* PhononDFT.cleanup(): when the base cleanup() passes, phonopy computes the
\* force sets and the DOS and leaves mesh.yaml, or fails and leaves none.
PhondftCleanup(dos) ==
    /\ mesh_yaml' = IF phondft_cleanup = "true" THEN (mesh_yaml \/ dos) ELSE mesh_yaml
    /\ UNCHANGED <<phondft, phoncalib, phonons, calibration_dat, phonopy, calibrate,
                   phonons_xyz, phonons_nsuccess>>

\* PhononCalibration.cleanup(): calibration.dat is written when forces were read.
PhoncalibCleanup(forces) ==
    /\ calibration_dat' = (calibration_dat \/ phoncalib_cleanup(forces).written)
    /\ UNCHANGED <<phondft, phoncalib, phonons, mesh_yaml, phonopy, calibrate,
                   phonons_xyz, phonons_nsuccess>>

\* What the call xyz(config_type="ph") comes to in PhononDatabase.cleanup():
\* it raises (the xyz() of basic.py takes no such keyword), or it converts the
\* folders and leaves it at that (combine=False), or it also writes the
\* combined output.xyz in the root.
XyzCalls == {"raise", "plain", "combined"}

\* PhononDatabase.ready() of an instance whose _nsuccess is n.
phonons_ready(n) == phonons_xyz /\ Cardinality(phonons.configs) = n

\* PhononDatabase.cleanup(): whether it raised, what it returns, the _nsuccess
\* it leaves and whether the combined output.xyz has been written. The base
\* cleanup() has passed, so every folder holds a finished run to convert.
phonons_cleanup(call) ==
    LET ok == stage_cleanup(phonons, StageConfigs)
    IN  IF ok = "raise" \/ (ok = "true" /\ call = "raise")
        THEN [raised |-> TRUE, result |-> FALSE, nsuccess |-> phonons_nsuccess,
              written |-> FALSE]
        ELSE IF ok = "false"
        THEN [raised |-> FALSE, result |-> FALSE, nsuccess |-> phonons_nsuccess,
              written |-> FALSE]
        ELSE [raised |-> FALSE, result |-> TRUE,
              nsuccess |-> Cardinality(phonons.configs),
              written |-> call = "combined"]

PhononsCleanup(call) ==
    /\ phonons_nsuccess' = phonons_cleanup(call).nsuccess
    /\ phonons_xyz' = (phonons_xyz \/ phonons_cleanup(call).written)
    /\ UNCHANGED <<phondft, phoncalib, phonons, mesh_yaml, calibration_dat, phonopy,
                   calibrate>>

\* The job of folder c of stage 1 at work: OUTCAR opened, header, final line.
PhondftJob(c, from, to) ==
    /\ phondft.jobfile
    /\ c \in phondft.configs
    /\ phondft.outcar[c] = from
    /\ phondft' = [phondft EXCEPT !.outcar[c] = to]
    /\ UNCHANGED <<phoncalib, phonons, mesh_yaml, calibration_dat, phonopy, calibrate,
                   phonons_xyz, phonons_nsuccess>>

\* The job of folder c of stage 2 at work.
PhoncalibJob(c, from, to) ==
    /\ phoncalib.jobfile
    /\ c \in phoncalib.configs
    /\ phoncalib.outcar[c] = from
    /\ phoncalib' = [phoncalib EXCEPT !.outcar[c] = to]
    /\ UNCHANGED <<phondft, phonons, mesh_yaml, calibration_dat, phonopy, calibrate,
                   phonons_xyz, phonons_nsuccess>>

\* The job of folder c of stage 3 at work.
PhononsJob(c, from, to) ==
    /\ phonons.jobfile
    /\ c \in phonons.configs
    /\ phonons.outcar[c] = from
    /\ phonons' = [phonons EXCEPT !.outcar[c] = to]
    /\ UNCHANGED <<phondft, phoncalib, mesh_yaml, calibration_dat, phonopy, calibrate,
                   phonons_xyz, phonons_nsuccess>>

\* The steps of a job on its OUTCAR.
JobSteps == {<<"none", "empty">>, <<"empty", "partial">>, <<"partial", "success">>}

\* The pipeline over an empty root; phonopy writes some number of files, the
\* configuration gives an amplitude or asks for the calibration.
PhononInit ==
    /\ InitGroup
    /\ InitExtraction
    /\ phondft = NoStage
    /\ phoncalib = NoStage
    /\ phonons = NoStage
    /\ mesh_yaml = FALSE
    /\ calibration_dat = FALSE
    /\ phonopy \in [displaced : 0..MaxConfigs, modulated : 0..StageConfigs]
    /\ calibrate \in BOOLEAN
    /\ phonons_xyz = FALSE
    /\ phonons_nsuccess = 0
    /\ sequence = <<>>
    /\ InitDisk

PhononNext ==
    \/ \E rerun \in BOOLEAN : PhondftSetup(rerun) /\ UNCHANGED <<group, sequence, disk>>
    \/ PhoncalibSetup /\ UNCHANGED <<group, sequence, disk>>
    \/ PhononsSetup /\ UNCHANGED <<group, sequence, disk>>
    \/ \E dos \in BOOLEAN : PhondftCleanup(dos) /\ UNCHANGED <<group, sequence, disk>>
    \/ \E forces \in ForcesRead : PhoncalibCleanup(forces) /\ UNCHANGED <<group, sequence, disk>>
    \/ \E call \in XyzCalls : PhononsCleanup(call) /\ UNCHANGED <<group, sequence, disk>>
    \/ \E c \in phondft.configs : \E step \in JobSteps :
          PhondftJob(c, step[1], step[2]) /\ UNCHANGED <<group, sequence, disk>>
    \/ \E c \in phoncalib.configs : \E step \in JobSteps :
          PhoncalibJob(c, step[1], step[2]) /\ UNCHANGED <<group, sequence, disk>>
    \/ \E c \in phonons.configs : \E step \in JobSteps :
          PhononsJob(c, step[1], step[2]) /\ UNCHANGED <<group, sequence, disk>>

PhononSpec == PhononInit /\ [][PhononNext]_vars

\* PhononDFT.setup() stopped inside its loop over the files of phonopy: the
\* first n folders are created, the others and jobfile.sh are not.
PhondftSetupInterrupted(n) ==
    /\ stage_setup(phondft, None) = "false"
    /\ ~phondft_ready
    /\ n \in 1..(phonopy.displaced - 1)
    /\ phondft' = create_each(phondft, SubSeq(displacements, 1, n))
    /\ UNCHANGED <<phoncalib, phonons, mesh_yaml, calibration_dat, phonopy, calibrate,
                   phonons_xyz, phonons_nsuccess>>

\* The pipeline with a driver that can be killed during the setup of stage 1.
RestartNext ==
    \/ PhononNext
    \/ \E n \in 1..MaxConfigs : PhondftSetupInterrupted(n) /\ UNCHANGED <<group, sequence, disk>>

RestartSpec == PhononInit /\ [][RestartNext]_vars

\* The pipeline under a driver that keeps polling stage 3: a setup() of stage 3
\* that would change something is eventually made.
PollSpec ==
    PhononInit /\ [][PhononNext]_vars /\ WF_vars(PhononsSetup /\ UNCHANGED <<group, sequence, disk>>)

-----------------------------------------------------------------------------
(* The composite Group: a Group whose sequence holds child Groups *)

\* Largest number of child Groups of a composite in the model.
MaxChildren == 2

\* A child after Group(root=this_root, ...) over an empty root; its nconfigs
\* is the default, None.
NoChild == [configs |-> {}, inputs |-> <<>>, outcar |-> <<>>]

\* The input files a folder of a child is given.
ChildInputs == {"good", "missing"}

\* setup() of a child, a plain Group: the message of the `confok` branch
\* formats self.name, an attribute Group does not have, so the call raises
\* there; otherwise the result is that of is_executing().
child_setup(ch) ==
    IF stage_confok(ch, None) THEN "raise" ELSE stage_is_executing(ch)

\* `already_setup` after the loop over the first n children, or "raise" when
\* the setup() of one of them raised.
RECURSIVE already_setup(_)
already_setup(n) ==
    IF n = 0 THEN <<>>
    ELSE LET before == already_setup(n - 1)
         IN  IF before = "raise" \/ child_setup(sequence[n]) = "raise"
             THEN "raise"
             ELSE Append(before, child_setup(sequence[n]) = "true")

\* all(results) of Python.
all(results) == \A i \in 1..Len(results) : results[i]

\* setup() of the composite: "true", "false" or "raise".
composite_setup ==
    LET results == already_setup(Len(sequence))
    IN  IF results = "raise" THEN "raise"
        ELSE IF all(results) THEN "true" ELSE "false"

\* is_executing() of the composite: the first pass of its loop appends to
\* `executin`, a name the method does not define, and raises NameError.
composite_is_executing ==
    IF Len(sequence) = 0 THEN "true" ELSE "raise"

\* status(False) of the composite: the loop runs over its own configs, not over
\* its children, and the call ends in is_executing().
composite_status ==
    IF composite_is_executing = "raise"
    THEN [raised |-> TRUE, ready |-> 0, done |-> 0, N |-> 0, busy |-> FALSE]
    ELSE [raised |-> FALSE, ready |-> 0, done |-> 0, N |-> 0,
          busy |-> composite_is_executing = "true"]

\* execute(dryrun, recovery) of a child, a leaf Group: no operation of the
\* composite writes a jobfile.sh or a recovery.sh into a child's root, and
\* without its job file execute() returns False.
child_execute(ch, dryrun, recovery) == "false"

\* execute(dryrun, recovery) of the composite: the arguments of the first
\* child's execute() name `recover`, which is no variable of the method or
\* of the module, so NameError is raised before any child is called.
composite_execute(dryrun, recovery) ==
    IF Len(sequence) = 0
    THEN [raised |-> FALSE, calls |-> 0, result |-> "false"]
    ELSE [raised |-> TRUE, calls |-> 0, result |-> "raise"]

\* create(atoms) called on child k: its next folder.
ChildCreate(k, shape) ==
    /\ k \in 1..Len(sequence)
    /\ Cardinality(sequence[k].configs) < MaxConfigs
    /\ LET ch  == sequence[k]
           cid == Cardinality(ch.configs) + 1
       IN  sequence' = [sequence EXCEPT ![k] =
                           [configs |-> ch.configs \cup {cid},
                            inputs  |-> [c \in ch.configs \cup {cid} |->
                                            IF c = cid THEN shape ELSE ch.inputs[c]],
                            outcar  |-> [c \in ch.configs \cup {cid} |->
                                            IF c = cid THEN "none" ELSE ch.outcar[c]]]]

\* The job of folder c of child k at work.
ChildJob(k, c, from, to) ==
    /\ k \in 1..Len(sequence)
    /\ c \in sequence[k].configs
    /\ sequence[k].outcar[c] = from
    /\ sequence' = [sequence EXCEPT ![k].outcar[c] = to]

\* setup() of the composite: probes only.
CompositeSetup ==
    /\ composite_setup \in {"true", "false", "raise"}
    /\ UNCHANGED sequence

\* is_executing() of the composite: probes only.
CompositeIsExecuting ==
    /\ composite_is_executing \in {"true", "raise"}
    /\ UNCHANGED sequence

\* status() of the composite: probes only.
CompositeStatus ==
    /\ composite_status.raised \in BOOLEAN
    /\ UNCHANGED sequence

\* execute() of the composite: no child is reached, nothing is submitted.
CompositeExecute(dryrun, recovery) ==
    /\ composite_execute(dryrun, recovery).calls = 0
    /\ UNCHANGED sequence

\* A composite over an empty root, with one child per parameter set.
CompositeInit ==
    /\ InitGroup
    /\ InitExtraction
    /\ InitPipeline
    /\ \E n \in 1..MaxChildren : sequence = [k \in 1..n |-> NoChild]
    /\ InitDisk

CompositeNext ==
    \/ \E k \in 1..Len(sequence) : \E shape \in ChildInputs :
          ChildCreate(k, shape) /\ UNCHANGED <<group, pipeline, disk>>
    \/ \E k \in 1..Len(sequence) : \E c \in sequence[k].configs : \E step \in JobSteps :
          ChildJob(k, c, step[1], step[2]) /\ UNCHANGED <<group, pipeline, disk>>
    \/ CompositeSetup /\ UNCHANGED <<group, pipeline, disk>>
    \/ CompositeIsExecuting /\ UNCHANGED <<group, pipeline, disk>>
    \/ CompositeStatus /\ UNCHANGED <<group, pipeline, disk>>
    \/ \E dryrun, recovery \in BOOLEAN :
          CompositeExecute(dryrun, recovery) /\ UNCHANGED <<group, pipeline, disk>>

CompositeSpec == CompositeInit /\ [][CompositeNext]_vars

-----------------------------------------------------------------------------
(* Group.__init__: the configs mapping loaded from the folders of the root *)

\* Largest config id of a folder name in the model.
MaxIds == 3

\* "{}.{}".format(self.prefix, cid): the folder name of config cid, as parts.
target(cid) == <<"S", ToString(cid)>>

\* Folder names under a root that glob("S.*") matches: the folders of configs,
\* copies of them kept under a further suffix, and a folder without a number.
DirNames ==
    {target(c) : c \in 1..MaxIds} \cup {<<"S", "1", "bak">>, <<"S", "2", "bak">>, <<"S", "x">>}

\* int(text): the number, or ValueError raised for text that is no number.
int(text) ==
    IF \E c \in 1..MaxIds : ToString(c) = text
    THEN [raised |-> FALSE, value |-> CHOOSE c \in 1..MaxIds : ToString(c) = text]
    ELSE [raised |-> TRUE, value |-> None]

\* The orders in which glob() can list the folders `found`.
Orders(found) ==
    {o \in [1..Cardinality(found) -> found] :
        \A i, j \in 1..Cardinality(found) : o[i] = o[j] => i = j}

\* The loop of __init__ over glob("S.*") listed in `order`: for each folder,
\* cid = int(folder.split('.')[1]) and configs[cid] = join(root, folder); a
\* folder whose second part is no number is passed over.
RECURSIVE load(_)
load(order) ==
    IF order = <<>> THEN <<>>
    ELSE LET before == load(SubSeq(order, 1, Len(order) - 1))
             folder == order[Len(order)]
             cid    == int(folder[2])
         IN  IF cid.raised THEN before
             ELSE [c \in DOMAIN before \cup {cid.value} |->
                      IF c = cid.value THEN folder ELSE before[c]]

\* A Group is constructed over the root: a leaf, or (atoms a ParameterGrid) a
\* composite with one child per parameter set, each in a folder of its own
\* named after the parameters; the loop over glob("S.*") runs in both cases.
Construct(order, children) ==
    /\ order \in Orders(dirs)
    /\ paths' = load(order)
    /\ sequence' = [k \in 1..children |-> NoChild]
    /\ UNCHANGED dirs

\* create(atoms) of the Group at hand: on a leaf, the folder of the next id
\* is made unless it is there and entered in configs; on a composite the call
\* raises NameError (`instance`) before it does anything.
LoadCreate ==
    /\ Cardinality(DOMAIN paths) < MaxIds
    /\ LET cid == Cardinality(DOMAIN paths) + 1
       IN  IF Len(sequence) = 0
           THEN /\ dirs' = dirs \cup {target(cid)}
                /\ paths' = [c \in DOMAIN paths \cup {cid} |->
                                IF c = cid THEN target(cid) ELSE paths[c]]
           ELSE UNCHANGED <<dirs, paths>>
    /\ UNCHANGED sequence

\* The user keeps a copy of a config folder under a further suffix, or makes
\* a folder of another name, next to the folders of the Group.
Copy(name) ==
    /\ name \in DirNames
    /\ Len(name) = 3 => <<name[1], name[2]>> \in dirs
    /\ Len(name) = 2 => int(name[2]).raised
    /\ dirs' = dirs \cup {name}
    /\ UNCHANGED <<paths, sequence>>

LoadNext ==
    \/ \E order \in Orders(dirs) : \E children \in 0..1 :
          Construct(order, children) /\ UNCHANGED <<group, pipeline>>
    \/ LoadCreate /\ UNCHANGED <<group, pipeline>>
    \/ \E name \in DirNames : Copy(name) /\ UNCHANGED <<group, pipeline>>

LoadSpec == Init /\ [][LoadNext]_vars

-----------------------------------------------------------------------------
\* The recovery machine: the extraction and the expected size play no part.
Next ==
    \/ \E shape \in InputShapes :
          Create(shape) /\ UNCHANGED extraction /\ UNCHANGED <<pipeline, sequence, disk>>
    \/ \E rerun \in BOOLEAN :
          Jobfile(rerun) /\ UNCHANGED extraction /\ UNCHANGED <<pipeline, sequence, disk>>
    \/ \E dryrun, recovery \in BOOLEAN :
          \E ack \in sbatch_answers(dryrun, recovery) :
             Execute(dryrun, recovery, ack) /\ UNCHANGED extraction /\ UNCHANGED <<pipeline, sequence, disk>>
    \/ \E rerun \in BOOLEAN :
          RecoverStatus(rerun) /\ UNCHANGED extraction /\ UNCHANGED <<pipeline, sequence, disk>>
    \/ RecoverFinish /\ UNCHANGED extraction /\ UNCHANGED <<pipeline, sequence, disk>>
    \/ \E t \in tasks : TaskStart(t) /\ UNCHANGED extraction /\ UNCHANGED <<pipeline, sequence, disk>>
    \/ \E c \in configs :
          JobFinish(c, "success") /\ UNCHANGED extraction /\ UNCHANGED <<pipeline, sequence, disk>>

Spec == Init /\ [][Next]_vars

-----------------------------------------------------------------------------
\* A Group of some expected size under the probes and the extraction, while
\* the calculator works in its folders.
ProbeInit ==
    /\ InitGroup
    /\ nconfigs \in NConfigsChoices
    /\ xyz = <<>>
    /\ archive = NoArchive
    /\ nsuccess = 0
    /\ sbatch = 0
    /\ InitPipeline
    /\ sequence = <<>>
    /\ InitDisk

ProbeNext ==
    \/ \E shape \in InputShapes : CreateFolder(shape) /\ UNCHANGED <<pipeline, sequence, disk>>
    \/ Setup /\ UNCHANGED <<pipeline, sequence, disk>>
    \/ Status /\ UNCHANGED <<pipeline, sequence, disk>>
    \/ \E recalc, combine \in BOOLEAN : Xyz(recalc, combine) /\ UNCHANGED <<pipeline, sequence, disk>>
    \/ \E c \in configs : JobOpen(c) /\ UNCHANGED extraction /\ UNCHANGED <<pipeline, sequence, disk>>
    \/ \E c \in configs : JobHeader(c) /\ UNCHANGED extraction /\ UNCHANGED <<pipeline, sequence, disk>>
    \/ \E c \in configs : \E final \in {"success", "error"} :
          JobFinish(c, final) /\ UNCHANGED extraction /\ UNCHANGED <<pipeline, sequence, disk>>

ProbeSpec == ProbeInit /\ [][ProbeNext]_vars

-----------------------------------------------------------------------------
\* create(atoms, cid) with an id given by the caller: the folder of that id.
CreateAt(cid, shape) ==
    /\ pc = "idle"
    /\ cid \in configs \/ Cardinality(configs) < MaxConfigs
    /\ configs' = configs \cup {cid}
    /\ inputs' = [c \in configs \cup {cid} |-> IF c = cid THEN shape ELSE inputs[c]]
    /\ outcar' = [c \in configs \cup {cid} |-> IF c \in configs THEN outcar[c] ELSE "none"]
    /\ xyz' = [c \in configs \cup {cid} |-> IF c \in configs THEN xyz[c] ELSE FALSE]
    /\ prev' = NoPrev
    /\ sbatch' = 0
    /\ UNCHANGED <<jobfile_sh, recovery_sh, failures, recoveryTemplate, tasks,
                   pc, detail, aborted, nconfigs, archive, nsuccess>>

\* A leaf Group whose folders are created with and without an id.
CreateNext ==
    \/ \E shape \in InputShapes : CreateFolder(shape) /\ UNCHANGED <<pipeline, sequence, disk>>
    \/ \E cid \in 1..(MaxConfigs + 1) : \E shape \in InputShapes :
          CreateAt(cid, shape) /\ UNCHANGED <<pipeline, sequence, disk>>

CreateSpec == ProbeInit /\ [][CreateNext]_vars

-----------------------------------------------------------------------------
\* recover(rerun) as one call that no job interrupts.
Recover(rerun) ==
    /\ pc = "idle"
    /\ IF StatusRaises
       THEN UNCHANGED <<failures, recovery_sh, aborted>>
       ELSE LET failed == failed_of(status.done)
                fl     == write_failures(failures, failed)
                job    == jobfile(rerun, TRUE, fl)
            IN  IF Len(failed) > 0
                THEN /\ failures' = fl
                     /\ recovery_sh' = job.script
                     /\ aborted' = (aborted \/ job.raised)
                ELSE /\ recovery_sh' = remove(recovery_sh, NoScript)
                     /\ failures' = remove(failures, NoFailures)
                     /\ aborted' = aborted
    /\ prev' = NoPrev
    /\ UNCHANGED <<configs, inputs, outcar, jobfile_sh, recoveryTemplate, tasks,
                   pc, detail>>

-----------------------------------------------------------------------------
\* The driver with every operation of the leaf Group at hand, on folders set
\* up with complete inputs, and the batch scheduler running what was
\* submitted. The extraction is called as the stages' cleanup() calls it.
DriverNext ==
    \/ CreateFolder("good") /\ UNCHANGED <<pipeline, sequence, disk>>
    \/ \E rerun \in BOOLEAN :
          Jobfile(rerun) /\ sbatch' = 0
             /\ UNCHANGED <<nconfigs, xyz, archive, nsuccess>> /\ UNCHANGED <<pipeline, sequence, disk>>
    \/ \E dryrun, recovery \in BOOLEAN :
          \E ack \in sbatch_answers(dryrun, recovery) :
             /\ Execute(dryrun, recovery, ack)
             /\ sbatch' = sbatch_calls(dryrun, recovery)
             /\ UNCHANGED <<nconfigs, xyz, archive, nsuccess>>
             /\ UNCHANGED <<pipeline, sequence, disk>>
    \/ \E rerun \in BOOLEAN :
          Recover(rerun) /\ sbatch' = 0
             /\ UNCHANGED <<nconfigs, xyz, archive, nsuccess>> /\ UNCHANGED <<pipeline, sequence, disk>>
    \/ Setup /\ UNCHANGED <<pipeline, sequence, disk>>
    \/ Status /\ UNCHANGED <<pipeline, sequence, disk>>
    \/ Xyz(FALSE, FALSE) /\ UNCHANGED <<pipeline, sequence, disk>>
    \/ \E t \in tasks : TaskStart(t) /\ UNCHANGED extraction /\ UNCHANGED <<pipeline, sequence, disk>>
    \/ \E c \in configs :
          JobFinish(c, "success") /\ UNCHANGED extraction /\ UNCHANGED <<pipeline, sequence, disk>>

DriverSpec == Init /\ [][DriverNext]_vars

-----------------------------------------------------------------------------
(* Properties of recover() *)

\* The failed list recover() computes from its status snapshot.
Failed == failed_of(detail.status.done)

\* The render of recovery.sh in the recover() under way raises.
RenderRaises == jobfile(detail.rerun, TRUE, write_failures(failures, Failed)).raised

\* C1: after completed recover() and execute() calls and job writes, with no
\* recover() that raised half-way, the failures file exists in the root if
\* and only if recovery.sh exists there.
C1_Pairing ==
    (pc = "idle" /\ ~aborted) => (failures.isfile <=> recovery_sh.isfile)

\* C1 witness: a completed recover() has left both files.
C1_Witness ==
    /\ pc = "idle" /\ ~aborted /\ prev.op = "recovered"
    /\ failures.isfile /\ recovery_sh.isfile

\* C2: a recover() whose render of recovery.sh raises leaves no failures file
\* without a recovery.sh.
C2_AtomicOnRaise ==
    [][(RecoverFinish /\ Len(Failed) > 0 /\ RenderRaises)
         => (failures'.isfile <=> recovery_sh'.isfile)]_vars

\* C3: a recover() whose status snapshot shows every config done leaves
\* neither failures nor recovery.sh, whatever existed before.
C3_NoFailuresNoFiles ==
    [][(RecoverFinish /\ \A p \in DOMAIN detail.status.done : detail.status.done[p])
         => (~failures'.isfile /\ ~recovery_sh'.isfile)]_vars

\* C3 witness: recovery.sh had been rendered and submitted, every config has
\* completed since, and a completed recover() has removed both files.
C3_Witness ==
    /\ pc = "idle" /\ prev.op = "recovered"
    /\ configs # {} /\ \A c \in configs : CanCleanup(c) = "true"
    /\ \E t \in tasks : t[1] = "recovery"
    /\ ~failures.isfile /\ ~recovery_sh.isfile

\* The entries of a failures file.
Entries(file) == {file.lines[i] : i \in 1..Len(file.lines)}

\* The configs the status snapshot of the recover() under way shows not done.
SnapshotFailing == {c \in configs : ~detail.status.done[Path(c)]}

\* C4 as stated: the failures file recover() writes lists exactly the ids of
\* the configs that fail can_cleanup at that call, one entry each.
C4_ListsIds ==
    [][(RecoverFinish /\ SnapshotFailing # {})
         => /\ failures'.isfile
            /\ Entries(failures') = {IdNames[c] : c \in SnapshotFailing}
            /\ Len(failures'.lines) = Cardinality(SnapshotFailing)]_vars

\* C4 amended: the status snapshot of recover() marks a config done exactly
\* when it passes can_cleanup, and the failures file recover() writes lists
\* exactly the folder paths of the configs not done, one entry each.
C4_ListsPaths ==
    [][/\ (pc = "idle" /\ pc' = "recover")
            => \A c \in configs :
                  detail'.status.done[Path(c)] = (CanCleanup(c) = "true")
       /\ (RecoverFinish /\ SnapshotFailing # {})
            => /\ failures'.isfile
               /\ Entries(failures') = {Path(c) : c \in SnapshotFailing}
               /\ Len(failures'.lines) = Cardinality(SnapshotFailing)]_vars

\* C4 witness: of two configs the first is done and the second is not, and a
\* completed recover() has listed the second only.
C4_Witness ==
    /\ pc = "idle" /\ prev.op = "recovered"
    /\ configs = {1, 2}
    /\ CanCleanup(1) = "true" /\ CanCleanup(2) = "false"
    /\ failures = [isfile |-> TRUE, lines |-> <<Path(2)>>]

\* C5: after every recover() that leaves a failures file and a recovery.sh,
\* the array size of recovery.sh is the number of entries of the failures file.
C5_ArraySize ==
    [][(RecoverFinish /\ failures'.isfile /\ recovery_sh'.isfile)
         => recovery_sh'.array_size = Len(failures'.lines)]_vars

\* C6: a recover(rerun) that follows a completed recover(rerun), with nothing
\* but execute(recovery=True) calls in between, leaves the failures file and
\* recovery.sh as the first call left them.
C6_RecoverTwice ==
    [][(RecoverFinish /\ prev.op = "recovered" /\ prev.rerun = detail.rerun)
         => (failures' = failures /\ recovery_sh' = recovery_sh)]_vars

\* C6 witness: a second recover() has completed after a first one and an
\* execute(recovery=True) in between, with failures still listed.
C6_Witness ==
    /\ pc = "idle" /\ prev.op = "recovered" /\ prev.again /\ prev.between
    /\ failures.isfile /\ recovery_sh.isfile

\* C7: recover() deletes the failures file only while every config passes
\* can_cleanup, whatever the jobs write between its status snapshot and its
\* removal of the files.
C7_DeleteOnlyWhenDone ==
    [][(RecoverFinish /\ failures.isfile /\ ~failures'.isfile)
         => \A c \in configs : CanCleanup(c) = "true"]_vars

-----------------------------------------------------------------------------
(* Properties of execute() *)

\* C8: on a Group with configs, a non-recovery execute() that directly
\* follows a non-recovery execute() which submitted the batch does not invoke
\* sbatch again.
C8_SubmitOnce ==
    (pc = "idle" /\ prev.op = "submitted" /\ configs # {})
        => \A dryrun, ack \in BOOLEAN : ~execute(dryrun, FALSE, ack).invoked

\* C9: a non-recovery execute() returns false without invoking sbatch when
\* jobfile.sh is missing, or a config fails can_execute, or a config has an
\* OUTCAR.
C9_RefusesUnready ==
    (/\ pc = "idle"
     /\ \/ ~jobfile_sh.isfile
        \/ \E c \in configs : CanExecute(c) # "true"
        \/ \E c \in configs : HasOutcar(c))
        => \A dryrun, ack \in BOOLEAN :
              execute(dryrun, FALSE, ack) = [result |-> "false", invoked |-> FALSE]

\* C10: execute(recovery=True) invokes sbatch only if recovery.sh exists and
\* every config passes can_execute, and returns false otherwise.
C10_RecoveryPreconditions ==
    pc = "idle"
        => \A dryrun, ack \in BOOLEAN :
              IF /\ recovery_sh.isfile
                 /\ \A c \in configs : CanExecute(c) = "true"
              THEN TRUE
              ELSE execute(dryrun, TRUE, ack) = [result |-> "false", invoked |-> FALSE]
-----------------------------------------------------------------------------
(* Properties of the operations as calls *)

\* The step is an execute() call.
ExecuteCall ==
    \E dryrun, recovery, ack \in BOOLEAN : Execute(dryrun, recovery, ack)

\* C11: a step that is not an execute() call queues no task and runs the
\* sbatch command zero times (setup(), status(), recover(), jobfile(), xyz()
\* and create() alike), and an execute() call runs it at most once.
C11_OnlyExecuteSubmits ==
    [][/\ ExecuteCall \/ (tasks' \subseteq tasks /\ sbatch' \in {0, sbatch})
       /\ sbatch' <= 1]_vars

\* C11 witness: an execute() has run sbatch once for a batch of two tasks,
\* and a later recover() has listed a failure and has submitted nothing.
C11_Witness ==
    /\ pc = "idle" /\ sbatch = 0
    /\ Cardinality(configs) = 2
    /\ failures.isfile /\ recovery_sh.isfile
    /\ tasks = {<<"array", 2>>}

\* The files and attributes of the Group that a probing call must leave alone.
GroupFiles ==
    <<configs, inputs, outcar, jobfile_sh, recovery_sh, failures, xyz, archive>>

\* C13: the base setup() of a leaf Group returns true exactly when the number
\* of configs equals nconfigs, or nconfigs is None and there is a config, or
\* the Group is executing (a config has an OUTCAR and a config is not done);
\* it returns false otherwise, and it changes neither configs nor a file.
C13_SetupResult ==
    [][/\ pc = "idle" =>
            setup = IF \/ Cardinality(configs) = nconfigs
                       \/ (nconfigs = None /\ configs # {})
                       \/ is_executing
                    THEN "true" ELSE "false"
       /\ Setup => UNCHANGED GroupFiles]_vars

\* C14: is_executing() of a leaf Group is true if and only if at least one
\* config has an OUTCAR and at least one config does not pass can_cleanup
\* (false when every OUTCAR is terminal and when there is no OUTCAR at all).
C14_IsExecuting ==
    pc = "idle" =>
        is_executing_outcome =
            IF /\ \E c \in configs : HasOutcar(c)
               /\ \E c \in configs : CanCleanup(c) # "true"
            THEN "true" ELSE "false"

-----------------------------------------------------------------------------
(* Properties of the extraction *)

NoDuplicates(seq) == \A i, j \in 1..Len(seq) : seq[i] = seq[j] => i = j

\* C15: in every state, a second xyz() that follows a first one with nothing
\* written in between leaves the combined record and the output.xyz files as
\* the first call left them, collects the same paths, and the record lists
\* no config twice.
C15_XyzTwice ==
    pc = "idle" =>
        \A first, second, combine \in BOOLEAN :
            LET files1   == xyz_files(first, xyz)
                archive1 == xyz_archive(first, combine, xyz, archive)
                files2   == xyz_files(second, files1)
                archive2 == xyz_archive(second, combine, files1, archive1)
            IN  /\ archive2 = archive1
                /\ files2 = files1
                /\ created(second, files1) = created(first, xyz)
                /\ NoDuplicates(created(first, xyz))
                /\ NoDuplicates(archive2.entries)

\* C15 witness: xyz() has combined the output.xyz of two configs into the record.
C15_Witness ==
    /\ pc = "idle"
    /\ archive = [isfile |-> TRUE, entries |-> <<Path(1), Path(2)>>]
    /\ nsuccess = 2
    /\ \A c \in configs : xyz[c]

\* The configs whose conversion succeeds in an xyz(recalc, ...) called now.
Extracted(recalc) == {c \in configs : vasp_to_xyz(c, recalc, xyz)}

\* C16 as stated: xyz() returns true if and only if the number of configs
\* extracted with success equals nconfigs.
C16_ResultNconfigs ==
    [][\A recalc, combine \in BOOLEAN :
          Xyz(recalc, combine) =>
              (xyz_result(recalc, xyz) <=> (Cardinality(Extracted(recalc)) = nconfigs))]_vars

\* C16 amended: xyz() counts in _nsuccess the configs extracted with success,
\* and returns true if and only if that number equals the number of configs
\* the Group holds.
C16_ResultConfigs ==
    [][\A recalc, combine \in BOOLEAN :
          Xyz(recalc, combine) =>
              /\ nsuccess' = Cardinality(Extracted(recalc))
              /\ xyz_result(recalc, xyz) <=>
                    (Cardinality(Extracted(recalc)) = Cardinality(configs))]_vars

\* C16 witness: a Group expecting no fixed number of configs holds two, one
\* of them extracted: xyz() has counted one and returns false.
C16_Witness ==
    /\ pc = "idle" /\ nconfigs = None
    /\ Cardinality(configs) = 2
    /\ nsuccess = 1
    /\ \E c \in configs : xyz[c]
    /\ ~xyz_result(FALSE, xyz)

\* The OUTCAR of config c ends with the error line: "Error" on the line of
\* the last 'free  energy'.
ErrorMarked(c) == Contains(MarkerLine(OutcarFile(outcar[c]).data), "Error")

Terminal(c) == Usable(c) \/ ErrorMarked(c)

C18_BadConfigIsolated ==
    (pc = "idle" /\ \E c \in configs : StatRaises([isdir |-> TRUE, files |-> InputFiles(inputs[c])]))
        => /\ ~status_outcome.raised
           /\ \A c \in configs :
                 IF inputs[c] = "missing"
                 THEN ~status_outcome.detail.ready[Path(c)]
                 ELSE /\ status_outcome.detail.ready[Path(c)] = (CanExecute(c) = "true")
                      /\ status_outcome.detail.done[Path(c)] = (CanCleanup(c) = "true")

\* The folders of a stage and its configs mapping.
Folders(s) == <<s.configs, DOMAIN s.outcar>>

\* C12: a second setup() right after a first one, with nothing else changed in
\* between, leaves the configs mapping of the stage as the first call left it
\* and creates no config directory.
C12_SetupTwice ==
    /\ \A first, second \in BOOLEAN :
          LET once == phondft_setup(phondft, first).stage
          IN  Folders(phondft_setup(once, second).stage) = Folders(once)
    /\ LET once == phoncalib_setup(phoncalib).stage
       IN  Folders(phoncalib_setup(once).stage) = Folders(once)
    /\ LET once == phonons_setup(phonons).stage
       IN  Folders(phonons_setup(once).stage) = Folders(once)

\* Stage 2 has been set up with fewer folders than it expects, so that a
\* second setup() goes through the creation again.
C12_Witness ==
    /\ phoncalib.configs # {}
    /\ stage_setup(phoncalib, StageConfigs) = "false"
    /\ phondft_ready
    /\ ~phoncalib_ready
    /\ ~phoncalib_setup(phoncalib).raised
    /\ phoncalib_setup(phoncalib).stage.configs = phoncalib.configs

\* C19: while stage 1 is not ready, PhononCalibration.setup() raises nothing
\* and leaves stage 2 as it is, without config directory and without jobfile,
\* however often it is called.
C19_CalibrationWaits ==
    ~phondft_ready =>
        /\ ~phoncalib_setup(phoncalib).raised
        /\ phoncalib_setup(phoncalib).stage = phoncalib
        /\ phoncalib.configs = {}
        /\ DOMAIN phoncalib.outcar = {}
        /\ ~phoncalib.jobfile

\* Stage 1 is set up and its jobs run, mesh.yaml is not there yet, and stage 2
\* that is polled meanwhile is still empty.
C19_Witness ==
    /\ ~phondft_ready
    /\ phonopy.modulated > 0
    /\ \E c \in phondft.configs : phondft.outcar[c] = "success"
    /\ phoncalib_setup(phoncalib).stage = NoStage

\* C20: whenever stage 3 gets a config directory, stage 1 is ready at that
\* moment, and so is the calibration when no explicit amplitude is configured.
C20_ModulationGated ==
    [][Folders(phonons') # Folders(phonons) =>
          /\ phondft_ready
          /\ calibrate => phoncalib_ready]_vars

\* Stage 3 has folders, made from an explicit amplitude.
C20_Witness ==
    /\ phonons.configs # {}
    /\ phonons.jobfile
    /\ ~calibrate
    /\ phondft_ready

\* Both upstream stages are ready, stage 3 waits for the calibration, and
\* phonopy has modulations to write.
UpstreamReady ==
    /\ calibrate
    /\ phondft_ready
    /\ phoncalib_ready
    /\ phonopy.modulated > 0

\* C21: in calibrate mode, once stage 1 and stage 2 are both ready, the polls
\* of stage 3's setup() eventually leave stage 3 with its config directories
\* and its jobfile.
C21_ModulationProgress == UpstreamReady ~> (phonons.configs # {} /\ phonons.jobfile)

\* With an explicit amplitude the same polls do reach the folders and the jobfile.
ExplicitProgress ==
    (~calibrate /\ phondft_ready /\ phonopy.modulated > 0)
        ~> (phonons.configs # {} /\ phonons.jobfile)

\* C22: ready() of each stage is the existence of the stage's derived file and
\* nothing else, so the instance at hand and an instance newly constructed
\* over the same files (its _nsuccess is 0) give the same answer.
C22_ReadyFromFiles ==
    /\ phondft_ready = mesh_yaml
    /\ phoncalib_ready = calibration_dat
    /\ phonons_ready(phonons_nsuccess) = phonons_xyz
    /\ phonons_ready(phonons_nsuccess) = phonons_ready(0)

\* A child is set up: it holds the folders it expects, or its jobs are running.
ChildIsSetup(ch) == stage_confok(ch, None) \/ stage_is_executing(ch) = "true"

\* C23: setup() of a composite returns the AND of its children's results: true
\* when every child is set up, false while one of them is not.
C23_CompositeSetup ==
    /\ composite_setup \in {"true", "false"}
    /\ composite_setup = "true" <=> \A k \in 1..Len(sequence) : ChildIsSetup(sequence[k])

\* C24: is_executing() of a composite returns the AND of its children's
\* results: true only if every child is executing.
C24_CompositeIsExecuting ==
    /\ composite_is_executing \in {"true", "false"}
    /\ composite_is_executing = "true"
          <=> \A k \in 1..Len(sequence) : stage_is_executing(sequence[k]) = "true"

\* The leaf configs of the children that pass a probe.
Passing(k, table, field) == {c \in sequence[k].configs : table[sequence[k][field][c]] = "true"}

RECURSIVE Total(_, _, _)
Total(n, table, field) ==
    IF n = 0 THEN 0
    ELSE Total(n - 1, table, field) + Cardinality(Passing(n, table, field))

RECURSIVE TotalConfigs(_)
TotalConfigs(n) ==
    IF n = 0 THEN 0 ELSE TotalConfigs(n - 1) + Cardinality(sequence[n].configs)

\* C25: status() of a composite counts over all leaf configs of its children:
\* N, ready and done are the sums over the children, busy is the aggregate of
\* the children's is_executing().
C25_CompositeStatus ==
    /\ ~composite_status.raised
    /\ composite_status.N = TotalConfigs(Len(sequence))
    /\ composite_status.ready = Total(Len(sequence), can_execute_of, "inputs")
    /\ composite_status.done = Total(Len(sequence), can_cleanup_of, "outcar")
    /\ composite_status.busy
          = \A k \in 1..Len(sequence) : stage_is_executing(sequence[k]) = "true"

\* The "stats" of status(False): count_nonzero of the two dicts, and N.
stats(d) ==
    [ready |-> Cardinality({p \in DOMAIN d.ready : d.ready[p]}),
     done  |-> Cardinality({p \in DOMAIN d.done : d.done[p]}),
     N     |-> d.N]

\* C26: in every state of a leaf Group, status(False) reports N equal to the
\* number of configs, a ready count equal to the number of configs that pass
\* can_execute and a done count equal to the number that pass can_cleanup.
C26_StatusCounts ==
    pc = "idle" =>
        /\ ~status_outcome.raised
        /\ LET st == stats(status_outcome.detail)
           IN  /\ st.N = Cardinality(configs)
               /\ st.ready = Cardinality({c \in configs : CanExecute(c) = "true"})
               /\ st.done = Cardinality({c \in configs : CanCleanup(c) = "true"})
               /\ st.ready <= st.N
               /\ st.done <= st.N

\* C27: can_execute(folder) never raises, and for a folder that lacks a
\* required input file it returns false.
C27_CanExecuteTotal ==
    \A c \in configs :
        /\ CanExecute(c) \in {"true", "false"}
        /\ StatRaises([isdir |-> TRUE, files |-> InputFiles(inputs[c])])
              => CanExecute(c) = "false"

\* The OUTCAR of config c is being written: it is there, without any marker.
BeingWritten(c) == HasOutcar(c) /\ RFind(OutcarFile(outcar[c]).data) = -1

\* C28: for an OUTCAR that is still empty or holds no marker yet, can_cleanup
\* returns false without raising, and is_executing() is then true.
C28_CanCleanupTolerant ==
    \A c \in configs :
        BeingWritten(c) =>
            /\ CanCleanup(c) = "false"
            /\ is_executing_outcome = "true"

\* C29: can_cleanup(folder) is true if and only if the OUTCAR exists and holds
\* the energy line or the error line; with neither, or without the file, it
\* is false.
C29_CanCleanupMarkers ==
    \A c \in configs :
        IF HasOutcar(c) /\ (ErrorMarked(c) \/ Usable(c))
        THEN CanCleanup(c) = "true"
        ELSE CanCleanup(c) = "false"

\* C30: create() without an id takes an id that configs does not hold yet:
\* after the call configs has exactly one more entry and every earlier entry
\* and folder is as it was.
C30_CreateFresh ==
    [][\A shape \in InputShapes :
          CreateFolder(shape) =>
              /\ Cardinality(configs') = Cardinality(configs) + 1
              /\ configs \subseteq configs'
              /\ \A c \in configs : inputs'[c] = inputs[c] /\ outcar'[c] = outcar[c]]_vars

\* C34: jobfile(rerun=False) on a target script that exists raises nothing and
\* leaves the script as it is, for jobfile.sh and for recovery.sh, whatever
\* the folders and the failures file hold at that moment.
C34_JobfileKept ==
    /\ jobfile_sh.isfile =>
          jobfile(FALSE, FALSE, failures) = [raised |-> FALSE, script |-> jobfile_sh]
    /\ recovery_sh.isfile =>
          jobfile(FALSE, TRUE, failures) = [raised |-> FALSE, script |-> recovery_sh]

\* C34 witness: a batch is mid-flight (one output complete, one pending, no
\* failures file) under a jobfile.sh rendered for fewer configs than there are.
C34_Witness ==
    /\ pc = "idle"
    /\ jobfile_sh.isfile
    /\ jobfile_sh.array_size # Cardinality(configs)
    /\ ~failures.isfile
    /\ \E c, d \in configs : CanCleanup(c) = "true" /\ outcar[d] = "none"

\* C39: whenever jobfile.sh exists, the array size rendered in it equals the
\* number of configs the Group holds.
C39_ArraySize ==
    jobfile_sh.isfile => jobfile_sh.array_size = Cardinality(configs)

\* C40: while tasks of a submitted recovery.sh are still queued, a recover()
\* leaves every folder that was listed in the failures file and is still
\* listed afterwards on the line it was on.
C40_PositionsKept ==
    [][(RecoverFinish /\ failures.isfile /\ failures'.isfile
          /\ \E t \in tasks : t[1] = "recovery")
         => \A p \in Entries(failures) \cap Entries(failures') :
               \A i \in 1..Len(failures.lines) :
                   failures.lines[i] = p
                       => i <= Len(failures'.lines) /\ failures'.lines[i] = p]_vars

\* C37: an execute() or execute(recovery=True) of the driver invokes sbatch
\* only when none of the configs its array tasks would run has a task still
\* queued for its folder or an OUTCAR that is there and not yet terminal.
C37_NoDoubleRun ==
    pc = "idle" =>
        \A recovery \in BOOLEAN :
            execute(FALSE, recovery, TRUE).invoked
                => \A c \in configs :
                      (\E t \in submitted(recovery) : task_folder(t) = c)
                          => /\ ~\E t \in tasks : task_folder(t) = c
                             /\ ~(HasOutcar(c) /\ CanCleanup(c) # "true")

\* C36: execute(dryrun, recovery) of a composite calls execute() on every
\* child with the same arguments, whatever the earlier children returned, and
\* returns the AND of their results.
C36_CompositeExecute ==
    \A dryrun, recovery \in BOOLEAN :
        LET x == composite_execute(dryrun, recovery)
        IN  /\ ~x.raised
            /\ x.calls = Len(sequence)
            /\ x.result = "true"
                  <=> \A k \in 1..Len(sequence) :
                         child_execute(sequence[k], dryrun, recovery) = "true"

\* C35: for each stage, a cleanup() that returns true leaves ready() true, and
\* a cleanup() during which ready() became true returns true.
C35_CleanupIffReady ==
    [][/\ \A dos \in BOOLEAN :
             PhondftCleanup(dos) =>
                 LET result == phondft_cleanup = "true" /\ mesh_yaml'
                 IN  /\ result => mesh_yaml'
                     /\ (~mesh_yaml /\ mesh_yaml') => result
       /\ \A forces \in ForcesRead :
             PhoncalibCleanup(forces) =>
                 LET x == phoncalib_cleanup(forces)
                 IN  /\ (~x.raised /\ x.result) => calibration_dat'
                     /\ (~calibration_dat /\ calibration_dat') => (~x.raised /\ x.result)
       /\ \A call \in XyzCalls :
             PhononsCleanup(call) =>
                 LET x      == phonons_cleanup(call)
                     before == phonons_ready(phonons_nsuccess)
                     after  == phonons_xyz' /\ Cardinality(phonons'.configs) = phonons_nsuccess'
                 IN  /\ (~x.raised /\ x.result) => after
                     /\ (~before /\ after) => (~x.raised /\ x.result)]_vars

\* C38: when stage 1 holds some of its folders and no jobfile.sh, as an
\* interrupted setup() leaves it, a setup() of the Group built again over
\* that root creates the remaining folders and jobfile.sh.
C38_SetupResumes ==
    (phondft.configs # {} /\ ~phondft.jobfile)
        => LET after == phondft_setup(phondft, FALSE)
           IN  /\ ~after.raised
               /\ after.stage.jobfile
               /\ Cardinality(after.stage.configs) = phonopy.displaced

\* C32: whatever the order of the listing, a Group constructed over a root
\* loads exactly the folders named prefix.N, each under its id N; a folder
\* such as prefix.1.bak or prefix.x adds no entry and replaces none.
C32_LoadsNumbered ==
    \A order \in Orders(dirs) :
        load(order) = [c \in {n \in 1..MaxIds : target(n) \in dirs} |-> target(c)]

\* C31: every entry of configs maps its id c to prefix.c, two ids never share
\* a folder, and no step removes an entry that is there or changes its folder.
C31_EntriesKept ==
    [][/\ \A c \in DOMAIN paths' : paths'[c] = target(c)
       /\ \A c, d \in DOMAIN paths' : paths'[c] = paths'[d] => c = d
       /\ \A c \in DOMAIN paths : c \in DOMAIN paths' /\ paths'[c] = paths[c]]_vars

\* C33: no Group holds both child Groups in its sequence and entries in its
\* own configs.
C33_LeafOrComposite == ~(Len(sequence) > 0 /\ DOMAIN paths # {})
====
